---- MODULE Spec2Model ----
(***************************************************************************)
(* State-machine model of the three components of the application: the     *)
(* WebRTC broadcaster (src/unnamed/part_001: the signaling socket's         *)
(* handlers, the per-viewer RTCPeerConnection bookkeeping in                *)
(* peerConnectionsRef, the start/stop controls), the snapshot broadcaster   *)
(* (src/unnamed/part_000: the frame-sending timer over one WebSocket) and   *)
(* the viewer (src/src/components/viewer.jsx).  A page shows one component. *)
(* Every event-loop task (a socket event, a peer connection event, a timer, *)
(* a button click) and every resumption of an async handler after an await  *)
(* is one action.                                                           *)
(*                                                                         *)
(* React state set with a functional updater (setViewerCount(prev => ...)) *)
(* is applied in call order, so viewerCount is updated in place.           *)
(***************************************************************************)
EXTENDS Integers, Sequences, FiniteSets, Bags, TLC

\* ---------------------------------------------------------------- bounds
Viewers == {"v1", "v2"}
\* peer connections created over the whole run (one per viewer_joined)
MaxPcs == 2
\* camera streams obtained over the whole run; a stream comes with at most
\* one socket
MaxSockets == 2
\* camera streams and peer connections obtained over the whole run, taken
\* together: two viewers in one session, or one viewer and a second start
MaxObjects == 3
\* setRemoteDescription calls of one connection waiting for their turn
MaxAnswers == 1
\* viewer_left envelopes delivered over the whole run
MaxLeft == 2
\* snapshot broadcaster: camera streams obtained over the whole run; a
\* stream comes with at most one socket
MaxSnapshotSockets == 2
\* snapshot broadcaster: setInterval timers created over the whole run
MaxSnapshotTimers == 3
\* values the FPS slider is moved to
FpsChoices == {10, 20}
\* viewer: sockets created over the whole run
MaxViewerSockets == 3
\* viewer: setTimeout timers created over the whole run
MaxViewerTimers == 4
\* viewer: frames displayed since the last reset of frameCount
MaxFrames == 1

\* viewer: automatic reconnections made before the run starts
MaxAttempts == 3

VARIABLES
  component,            \* the component the route shows
  mounted,              \* the broadcaster the route shows is mounted
  snapshot,             \* state and refs of the snapshot broadcaster
  viewer,               \* state and refs of the viewer
  isStreaming,          \* useState(false)
  status,               \* useState('Ready to stream')
  viewerCount,          \* useState(0)
  socketRef,            \* index into sockets, 0 = null
  localStreamRef,       \* index into streams, 0 = null
  peerConnectionsRef,   \* viewer id -> index into pcs, 0 = no such key
  sockets,              \* every WebSocket created so far
  streams,              \* every MediaStream obtained so far
  pcs,                  \* every RTCPeerConnection created so far
  pendingStarts,        \* startStreaming calls suspended at getUserMedia
  uncaught,             \* an exception left a handler uncaught
  sent,                 \* bag of envelopes the last task put on the wire
  leftCount,            \* history: viewer_left envelopes delivered while only
                        \* joins and leaves were handled; -1 once stopStreaming
                        \* or a connection-state removal has run
  last                  \* history: the last task run

\* the state of the WebRTC broadcaster, without the record of the last task
webrtcVars == <<isStreaming, status, viewerCount, socketRef, localStreamRef,
                peerConnectionsRef, sockets, streams, pcs, pendingStarts,
                uncaught, leftCount>>

vars == <<component, mounted, snapshot, viewer, webrtcVars, sent, last>>

\* the broadcasterId ref of this component
BroadcasterId == "broadcaster_me"

Max(a, b) == IF a >= b THEN a ELSE b

\* the terminal states with "disconnected" left out
TerminalStatesWithoutDisconnected == {"failed", "closed"}

\* states for which onconnectionstatechange removes the viewer
TerminalStates == {"disconnected", "failed", "closed"}

\* op: the task; viewerId: the viewer it names; hit: whether the branch the
\* task guards was taken
NoTask == [op |-> "none", viewerId |-> "none", hit |-> FALSE]

Task(op, v, hit) == [op |-> op, viewerId |-> v, hit |-> hit]

\* useState(10): the initial FPS of the snapshot broadcaster
InitialFps == 10

\* the snapshot broadcaster after construction and its mount effect, whose
\* fetchStreamId call is in flight.  socketRef, streamRef and
\* frameIntervalRef are indexes into sockets, streams and timers (0 = null);
\* pendingStarts holds, for every startStreaming call suspended at
\* getUserMedia, the fps its closure captured.
SnapshotInit ==
  [isStreaming |-> FALSE,
   status |-> "Ready to stream",
   viewerCount |-> 0,
   fps |-> InitialFps,
   socketRef |-> 0,
   streamRef |-> 0,
   frameIntervalRef |-> 0,
   viewers |-> {},
   sockets |-> <<>>,
   streams |-> <<>>,
   timers |-> <<>>,
   pendingStarts |-> <<>>]

\* the viewer while its route is not shown
ViewerUnmounted == [isMounted |-> FALSE]

\* the WebRTC broadcaster after construction and its mount effect, whose
\* fetchStreamId call is in flight
Init ==
  /\ component = "webrtc"
  /\ mounted = TRUE
  /\ snapshot = SnapshotInit
  /\ viewer = ViewerUnmounted
  /\ isStreaming = FALSE
  /\ status = "Ready to stream"
  /\ viewerCount = 0
  /\ socketRef = 0
  /\ localStreamRef = 0
  /\ peerConnectionsRef = [v \in Viewers |-> 0]
  /\ sockets = <<>>
  /\ streams = <<>>
  /\ pcs = <<>>
  /\ pendingStarts = 0
  /\ sent = EmptyBag
  /\ uncaught = FALSE
  /\ leftCount = 0
  /\ last = NoTask

\* ------------------------------------------------------- browser objects
\* no error event of a socket has been dispatched whose close event is still
\* to follow.  The browser changes readyState to CLOSED and fires error and
\* close in one task, so no other task runs between the two handlers.
BetweenTasks == \A s \in 1..Len(sockets) : ~sockets[s].closeDue

\* camera streams obtained or asked for, and peer connections created
Objects == Max(Len(streams), Len(sockets)) + pendingStarts + Len(pcs)

\* no viewer_joined handler is suspended at an await
Quiescent == \A p \in 1..Len(pcs) : pcs[p].at = "done"

IsClosed(p) == pcs[p].signalingState = "closed"

\* RTCPeerConnection.close(): both states become "closed" and the
\* connection takes no further part in negotiation
Closed(pc) ==
  [pc EXCEPT !.signalingState = "closed", !.connectionState = "closed",
             !.remoteSet = FALSE]

\* close() on every connection of pcList whose index is in the set P
ClosePcs(pcList, P) ==
  [i \in 1..Len(pcList) |-> IF i \in P THEN Closed(pcList[i]) ELSE pcList[i]]

\* WebSocket.close() on socks[s]: CONNECTING/OPEN -> CLOSING, otherwise nothing
CloseSocket(socks, s) ==
  [socks EXCEPT ![s].readyState =
     IF @ \in {"CONNECTING", "OPEN"} THEN "CLOSING" ELSE @]

\* socketRef.current.send(env) with the sockets in state socks:
\* <<threw, envelopes sent>>.  A null ref throws TypeError, a CONNECTING
\* socket throws InvalidStateError, a CLOSING/CLOSED socket discards the
\* data silently.
RefSend(socks, env) ==
  IF socketRef = 0 THEN <<TRUE, EmptyBag>>
  ELSE IF socks[socketRef].readyState = "CONNECTING" THEN <<TRUE, EmptyBag>>
  ELSE IF socks[socketRef].readyState = "OPEN"
       THEN <<FALSE, SetToBag({[env EXCEPT !.sock = socketRef]})>>
  ELSE <<FALSE, EmptyBag>>

Envelope(type, v, payload) ==
  [type |-> type, viewerId |-> v, broadcasterId |-> BroadcasterId,
   payload |-> payload, sock |-> 0]

\* ------------------------------------------------------------ useState
\* the setters of useState: an update of an unmounted component is dropped
setStatus(v) == status' = IF mounted THEN v ELSE status

setIsStreaming(v) == isStreaming' = IF mounted THEN v ELSE isStreaming

setViewerCount(v) == viewerCount' = IF mounted THEN v ELSE viewerCount

\* ------------------------------------------------------------ start / stop
\* Start button (rendered while mounted and !isStreaming, so also while an
\* earlier start still waits for the camera or for its socket to open):
\* startStreaming runs up to its await of getUserMedia.  Every call obtains
\* at most one stream and creates at most one socket.
StartStreaming ==
  /\ mounted
  /\ ~isStreaming
  /\ Max(Len(streams), Len(sockets)) + pendingStarts < MaxSockets
  /\ Objects < MaxObjects
  /\ pendingStarts' = pendingStarts + 1
  /\ sent' = EmptyBag
  /\ last' = Task("startStreaming", "none", TRUE)
  /\ UNCHANGED <<isStreaming, status, viewerCount, socketRef, localStreamRef,
                 peerConnectionsRef, sockets, streams, pcs, uncaught, leftCount>>

\* getUserMedia resolved: the stream is stored and new WebSocket is called
\* with the URL built from the stream id the server gave.  When the
\* constructor accepts the URL (constructed), the socket exists in state
\* CONNECTING and its handlers are installed; they close over the
\* isStreaming of the render whose Start button was clicked, which is false.
\* When it throws (a stream id that puts a fragment into the URL), the catch
\* block of startStreaming sets the status; the stream stays stored and
\* live and there is no socket.
MediaGranted(constructed) ==
  /\ pendingStarts > 0
  /\ pendingStarts' = pendingStarts - 1
  /\ streams' = Append(streams, [stopped |-> FALSE])
  /\ localStreamRef' = Len(streams) + 1
  /\ IF constructed
     THEN /\ sockets' = Append(sockets, [readyState |-> "CONNECTING",
                                          closureIsStreaming |-> FALSE,
                                          closeDue |-> FALSE])
          /\ socketRef' = Len(sockets) + 1
          /\ UNCHANGED status
     ELSE /\ setStatus("Error: WebSocket")
          /\ UNCHANGED <<sockets, socketRef>>
  /\ sent' = EmptyBag
  /\ last' = Task("getUserMedia", "none", TRUE)
  /\ UNCHANGED <<isStreaming, viewerCount, peerConnectionsRef, pcs,
                 uncaught, leftCount>>

\* the socket setup placed after the try/catch: it runs although
\* getUserMedia rejected
MediaDeniedStillConnects ==
  /\ pendingStarts > 0
  /\ pendingStarts' = pendingStarts - 1
  /\ setStatus("Error: getUserMedia")
  /\ sockets' = Append(sockets, [readyState |-> "CONNECTING",
                                  closureIsStreaming |-> FALSE,
                                  closeDue |-> FALSE])
  /\ socketRef' = Len(sockets) + 1
  /\ sent' = EmptyBag
  /\ last' = Task("getUserMedia", "none", FALSE)
  /\ UNCHANGED <<isStreaming, viewerCount, localStreamRef,
                 peerConnectionsRef, streams, pcs, uncaught, leftCount>>

\* getUserMedia rejected: the catch block of startStreaming
MediaDenied ==
  /\ pendingStarts > 0
  /\ pendingStarts' = pendingStarts - 1
  /\ setStatus("Error: getUserMedia")
  /\ sent' = EmptyBag
  /\ last' = Task("getUserMedia", "none", FALSE)
  /\ UNCHANGED <<isStreaming, viewerCount, socketRef, localStreamRef,
                 peerConnectionsRef, sockets, streams, pcs, uncaught, leftCount>>

\* stopStreaming that closes the socket but keeps the reference to it
StopStreamingKeepsSocketRef(socks) ==
  /\ pcs' = ClosePcs(pcs, {peerConnectionsRef[v] : v \in Viewers} \ {0})
  /\ peerConnectionsRef' = [v \in Viewers |-> 0]
  /\ sockets' = IF socketRef # 0 THEN CloseSocket(socks, socketRef) ELSE socks
  /\ socketRef' = socketRef
  /\ streams' = IF localStreamRef # 0
                 THEN [streams EXCEPT ![localStreamRef].stopped = TRUE]
                 ELSE streams
  /\ localStreamRef' = 0
  /\ setIsStreaming(FALSE)
  /\ setStatus("Stream ended")
  /\ setViewerCount(0)

\* what stopStreaming does to the refs and the browser objects, with the
\* sockets in state socks
StopStreamingRefs(socks) ==
  /\ pcs' = ClosePcs(pcs, {peerConnectionsRef[v] : v \in Viewers} \ {0})
  /\ peerConnectionsRef' = [v \in Viewers |-> 0]
  /\ sockets' = IF socketRef # 0 THEN CloseSocket(socks, socketRef) ELSE socks
  /\ socketRef' = 0
  /\ streams' = IF localStreamRef # 0
                 THEN [streams EXCEPT ![localStreamRef].stopped = TRUE]
                 ELSE streams
  /\ localStreamRef' = 0

\* The body of stopStreaming, run with the sockets in state socks.
StopStreamingBody(socks) ==
  /\ StopStreamingRefs(socks)
  /\ setIsStreaming(FALSE)
  /\ setStatus("Stream ended")
  /\ setViewerCount(0)

\* Stop button (rendered while mounted and isStreaming)
StopStreaming ==
  /\ mounted
  /\ isStreaming
  /\ StopStreamingBody(sockets)
  /\ leftCount' = -1
  /\ sent' = EmptyBag
  /\ last' = Task("stopStreaming", "none", TRUE)
  /\ UNCHANGED <<pendingStarts, uncaught>>

\* the component unmounts (the route changes): the cleanup of the mount
\* effect calls stopStreaming whatever isStreaming is; the setters it calls
\* reach a component that is gone
Unmount ==
  /\ mounted
  /\ mounted' = FALSE
  /\ StopStreamingRefs(sockets)
  /\ leftCount' = -1
  /\ sent' = EmptyBag
  /\ last' = Task("stopStreaming", "none", TRUE)
  /\ UNCHANGED <<isStreaming, status, viewerCount, pendingStarts, uncaught>>

\* a fetch of fetchStreamId rejects: the catch block sets the status.  The
\* mount effect starts one fetch and every click on "Generate New Stream ID"
\* (enabled while !isStreaming) one more, so one can settle at any time.  A
\* fetch that resolves stores the stream id, which is not part of this
\* state: that step changes nothing here.
FetchStreamIdFailed ==
  /\ setStatus("Error fetching stream ID")
  /\ sent' = EmptyBag
  /\ last' = Task("fetchStreamId", "none", FALSE)
  /\ UNCHANGED <<isStreaming, viewerCount, socketRef, localStreamRef,
                 peerConnectionsRef, sockets, streams, pcs, pendingStarts,
                 uncaught, leftCount>>

\* ---------------------------------------------------------- socket events
\* open event of sockets[s]
SocketOnOpen(s) ==
  /\ sockets[s].readyState = "CONNECTING"
  /\ LET socks == [sockets EXCEPT ![s].readyState = "OPEN"]
         r == RefSend(socks, Envelope("broadcaster_ready", "none", "none"))
     IN /\ sockets' = socks
        /\ setStatus("Connected to signaling server, waiting for viewers")
        /\ setIsStreaming(TRUE)
        /\ uncaught' = (uncaught \/ r[1])
        /\ sent' = r[2]
  /\ last' = Task("open", "none", TRUE)
  /\ UNCHANGED <<viewerCount, socketRef, localStreamRef, peerConnectionsRef,
                 streams, pcs, pendingStarts, leftCount>>

\* the peer's Close frame arrives on sockets[s]: the browser starts the
\* closing handshake and readyState becomes CLOSING.  No handler runs; the
\* close event follows in a later task, once the connection is closed, and
\* until then send() discards its data.
SocketClosing(s) ==
  /\ sockets[s].readyState = "OPEN"
  /\ sockets' = [sockets EXCEPT ![s].readyState = "CLOSING"]
  /\ sent' = EmptyBag
  /\ last' = Task("closing", "none", FALSE)
  /\ UNCHANGED <<isStreaming, status, viewerCount, socketRef, localStreamRef,
                 peerConnectionsRef, streams, pcs, pendingStarts,
                 uncaught, leftCount>>

\* close event of sockets[s]: the connection is closed (the closing
\* handshake the peer or a close() call started has completed, or the
\* connection was lost, or it failed and the error handler has just run)
\* and readyState is CLOSED.  stopStreaming runs only if the handler's
\* closure saw isStreaming true.
SocketOnClose(s) ==
  /\ \/ sockets[s].closeDue
     \/ BetweenTasks /\ sockets[s].readyState # "CLOSED"
  /\ LET socks == [sockets EXCEPT ![s].readyState = "CLOSED",
                                  ![s].closeDue = FALSE]
     IN IF sockets[s].closureIsStreaming
        THEN /\ StopStreamingBody(socks)
             /\ leftCount' = -1
        ELSE /\ sockets' = socks
             /\ setStatus("Signaling connection closed")
             /\ UNCHANGED <<isStreaming, viewerCount, socketRef, localStreamRef,
                            peerConnectionsRef, streams, pcs, leftCount>>
  /\ sent' = EmptyBag
  /\ last' = Task("close", "none", sockets[s].closureIsStreaming)
  /\ UNCHANGED <<pendingStarts, uncaught>>

\* error event of sockets[s]: the connection failed (the handshake was
\* refused, the connection broke, or close() was called before it was
\* established).  The socket is CLOSED when the handler runs, and its close
\* event is fired next, in the same task.
SocketOnError(s) ==
  /\ sockets[s].readyState # "CLOSED"
  /\ sockets' = [sockets EXCEPT ![s].readyState = "CLOSED",
                                ![s].closeDue = TRUE]
  /\ setStatus("Signaling connection error")
  /\ sent' = EmptyBag
  /\ last' = Task("error", "none", TRUE)
  /\ UNCHANGED <<isStreaming, viewerCount, socketRef, localStreamRef,
                 peerConnectionsRef, streams, pcs, pendingStarts,
                 uncaught, leftCount>>

\* ------------------------------------------------ signaling onmessage
\* the decrement without its floor
DecrementUnfloored(c) == c - 1

\* setViewerCount(prevCount => Math.max(0, prevCount - 1))
Decrement(c) == Max(0, c - 1)

\* the test both the answer and the ice_candidate branch make on the
\* connection found under the envelope's viewerId (0 = undefined)
Usable(p) == p # 0 /\ pcs[p].signalingState # "closed"

\* viewer_joined: createPeerConnection stores a new connection under v
\* (whatever was stored there before), the local tracks are added, and the
\* handler suspends at createOffer.  With localStreamRef null, getTracks
\* throws into the outer catch and the handler ends there.  A connection's
\* answers field counts its setRemoteDescription calls that wait for their
\* turn with a local offer set or being set.
OnViewerJoined(s, v) ==
  /\ sockets[s].readyState = "OPEN"
  /\ Len(pcs) < MaxPcs
  /\ Objects < MaxObjects
  /\ pcs' = Append(pcs, [viewerId |-> v,
                         signalingState |-> "stable",
                         connectionState |-> "new",
                         remoteSet |-> FALSE,
                         answers |-> 0,
                         at |-> IF localStreamRef # 0 THEN "createOffer"
                                                      ELSE "done"])
  /\ peerConnectionsRef' = [peerConnectionsRef EXCEPT ![v] = Len(pcs) + 1]
  /\ sent' = EmptyBag
  /\ last' = Task("viewer_joined", v, localStreamRef # 0)
  /\ UNCHANGED <<isStreaming, status, viewerCount, socketRef, localStreamRef,
                 sockets, streams, pendingStarts, uncaught, leftCount>>

\* the resumption with the inner try/catch removed: a rejection leaves the
\* handler uncaught
OfferCreatedRejectionEscapes(p, resolved) ==
  /\ pcs[p].at = "createOffer"
  /\ ~IsClosed(p)
  /\ IF resolved
     THEN /\ pcs' = [pcs EXCEPT ![p].at = "setLocalDescription"]
          /\ UNCHANGED <<viewerCount, uncaught>>
     ELSE /\ pcs' = [pcs EXCEPT ![p].at = "done"]
          /\ setViewerCount(viewerCount + 1)
          /\ uncaught' = TRUE
  /\ sent' = EmptyBag
  /\ last' = Task("createOffer", pcs[p].viewerId, resolved)
  /\ UNCHANGED <<isStreaming, status, socketRef, localStreamRef,
                 peerConnectionsRef, sockets, streams, pendingStarts,
                 leftCount>>

\* createOffer of pcs[p] settled and the viewer_joined handler resumes.  When
\* it resolved, setLocalDescription is called and the handler suspends
\* again; when it rejected, the inner catch logs and the count is
\* incremented.  The promise of a connection that was closed meanwhile never
\* settles: that handler stays suspended.
OfferCreated(p, resolved) ==
  /\ pcs[p].at = "createOffer"
  /\ ~IsClosed(p)
  /\ IF resolved
     THEN /\ pcs' = [pcs EXCEPT ![p].at = "setLocalDescription"]
          /\ UNCHANGED viewerCount
     ELSE /\ pcs' = [pcs EXCEPT ![p].at = "done"]
          /\ setViewerCount(viewerCount + 1)
  /\ sent' = EmptyBag
  /\ last' = Task("createOffer", pcs[p].viewerId, resolved)
  /\ UNCHANGED <<isStreaming, status, socketRef, localStreamRef,
                 peerConnectionsRef, sockets, streams, pendingStarts,
                 uncaught, leftCount>>

\* the resumption sending the offer although setLocalDescription rejected
LocalDescriptionSetAlwaysSends(p, resolved) ==
  /\ pcs[p].at = "setLocalDescription"
  /\ ~IsClosed(p)
  /\ LET ok == resolved
         r == RefSend(sockets, Envelope("offer", pcs[p].viewerId, "sdp"))
     IN /\ pcs' = [pcs EXCEPT ![p].at = "done",
                              ![p].signalingState =
                                 IF ok THEN "have-local-offer" ELSE @]
        /\ sent' = r[2]
        /\ last' = Task("setLocalDescription", pcs[p].viewerId, ok)
  /\ setViewerCount(viewerCount + 1)
  /\ UNCHANGED <<isStreaming, status, socketRef, localStreamRef,
                 peerConnectionsRef, sockets, streams, pendingStarts,
                 uncaught, leftCount>>

\* setLocalDescription of pcs[p] settled and the handler resumes: when it
\* resolved the offer is sent through socketRef.current (a throw lands in
\* the inner catch), and the count is incremented either way.  The promise
\* of a connection that was closed meanwhile never settles.
LocalDescriptionSet(p, resolved) ==
  /\ pcs[p].at = "setLocalDescription"
  /\ ~IsClosed(p)
  /\ LET ok == resolved
         r == RefSend(sockets, Envelope("offer", pcs[p].viewerId, "sdp"))
     IN /\ pcs' = [pcs EXCEPT ![p].at = "done",
                              ![p].signalingState =
                                 IF ok THEN "have-local-offer" ELSE @]
        /\ sent' = IF ok THEN r[2] ELSE EmptyBag
        /\ last' = Task("setLocalDescription", pcs[p].viewerId, ok)
  /\ setViewerCount(viewerCount + 1)
  /\ UNCHANGED <<isStreaming, status, socketRef, localStreamRef,
                 peerConnectionsRef, sockets, streams, pendingStarts,
                 uncaught, leftCount>>

\* the connection found under the envelope's viewerId has a local offer set
\* or being set, so that a setRemoteDescription call made now finds it when
\* its turn comes (the calls of a connection are processed in call order)
OfferUnderWay(p) ==
  pcs[p].at = "setLocalDescription" \/ pcs[p].signalingState = "have-local-offer"

\* the answer branch without its test and outside the try block: reading
\* signalingState of an undefined connection throws out of the handler
OnAnswerUnguarded(s, v) ==
  /\ sockets[s].readyState = "OPEN"
  /\ LET p == peerConnectionsRef[v]
         queued == Usable(p) /\ OfferUnderWay(p)
     IN /\ queued => pcs[p].answers < MaxAnswers
        /\ pcs' = IF queued THEN [pcs EXCEPT ![p].answers = @ + 1] ELSE pcs
        /\ uncaught' = (uncaught \/ p = 0)
        /\ last' = Task("answer", v, Usable(p))
  /\ sent' = EmptyBag
  /\ UNCHANGED <<isStreaming, status, viewerCount, socketRef, localStreamRef,
                 peerConnectionsRef, sockets, streams, pendingStarts,
                 leftCount>>

\* answer naming this broadcaster: when the connection stored under v is
\* usable, setRemoteDescription is called on it and the handler suspends;
\* nothing changes in this task.  A call made with no local offer set or
\* being set rejects when its turn comes (into the outer catch, which only
\* logs); the others are counted in the connection's answers.
OnAnswer(s, v) ==
  /\ sockets[s].readyState = "OPEN"
  /\ LET p == peerConnectionsRef[v]
         queued == Usable(p) /\ OfferUnderWay(p)
     IN /\ queued => pcs[p].answers < MaxAnswers
        /\ pcs' = IF queued THEN [pcs EXCEPT ![p].answers = @ + 1] ELSE pcs
        /\ last' = Task("answer", v, Usable(p))
  /\ sent' = EmptyBag
  /\ UNCHANGED <<isStreaming, status, viewerCount, socketRef, localStreamRef,
                 peerConnectionsRef, sockets, streams, pendingStarts,
                 uncaught, leftCount>>

\* a setRemoteDescription call of pcs[p] settled and the answer handler
\* resumes: it comes after the setLocalDescription call made before it.  It
\* resolves when the connection has a local offer pending and accepts the
\* description, which makes the connection stable with a remote description;
\* otherwise it rejects into the outer catch.  The promise of a connection
\* that was closed meanwhile never settles.
RemoteDescriptionSet(p, resolved) ==
  /\ pcs[p].answers > 0
  /\ pcs[p].at = "done"
  /\ ~IsClosed(p)
  /\ LET ok == resolved /\ pcs[p].signalingState = "have-local-offer"
     IN /\ pcs' = IF ok
                  THEN [pcs EXCEPT ![p].answers = @ - 1,
                                   ![p].signalingState = "stable",
                                   ![p].remoteSet = TRUE]
                  ELSE [pcs EXCEPT ![p].answers = @ - 1]
        /\ last' = Task("setRemoteDescription", pcs[p].viewerId, ok)
  /\ sent' = EmptyBag
  /\ UNCHANGED <<isStreaming, status, viewerCount, socketRef, localStreamRef,
                 peerConnectionsRef, sockets, streams, pendingStarts,
                 uncaught, leftCount>>

\* ice_candidate naming this broadcaster: handed to the connection stored
\* under v under the same test.  addIceCandidate rejects (into the outer
\* catch) while no remote description is set; a candidate it accepts changes
\* nothing the component reads.
OnIceCandidate(s, v) ==
  /\ sockets[s].readyState = "OPEN"
  /\ last' = Task("ice_candidate", v, Usable(peerConnectionsRef[v]))
  /\ sent' = EmptyBag
  /\ UNCHANGED <<isStreaming, status, viewerCount, socketRef, localStreamRef,
                 peerConnectionsRef, sockets, streams, pcs, pendingStarts,
                 uncaught, leftCount>>

\* viewer_left with the decrement placed after the if block
OnViewerLeftAlwaysDecrements(s, v) ==
  /\ sockets[s].readyState = "OPEN"
  /\ leftCount < MaxLeft
  /\ leftCount' = IF leftCount >= 0 THEN leftCount + 1 ELSE leftCount
  /\ LET p == peerConnectionsRef[v]
     IN IF p # 0
        THEN /\ pcs' = ClosePcs(pcs, {p})
             /\ peerConnectionsRef' = [peerConnectionsRef EXCEPT ![v] = 0]
        ELSE UNCHANGED <<pcs, peerConnectionsRef>>
  /\ setViewerCount(Decrement(viewerCount))
  /\ sent' = EmptyBag
  /\ last' = Task("viewer_left", v, peerConnectionsRef[v] # 0)
  /\ UNCHANGED <<isStreaming, status, socketRef, localStreamRef, sockets,
                 streams, pendingStarts, uncaught>>

\* viewer_left: the connection stored under v, if any, is closed and its key
\* deleted, and the count is decremented
OnViewerLeft(s, v) ==
  /\ sockets[s].readyState = "OPEN"
  /\ leftCount < MaxLeft
  /\ leftCount' = IF leftCount >= 0 THEN leftCount + 1 ELSE leftCount
  /\ LET p == peerConnectionsRef[v]
     IN IF p # 0
        THEN /\ pcs' = ClosePcs(pcs, {p})
             /\ peerConnectionsRef' = [peerConnectionsRef EXCEPT ![v] = 0]
             /\ setViewerCount(Decrement(viewerCount))
        ELSE UNCHANGED <<pcs, peerConnectionsRef, viewerCount>>
  /\ sent' = EmptyBag
  /\ last' = Task("viewer_left", v, peerConnectionsRef[v] # 0)
  /\ UNCHANGED <<isStreaming, status, socketRef, localStreamRef, sockets,
                 streams, pendingStarts, uncaught>>

\* a message that is not JSON, of a type the handler does not know, or an
\* answer / ice_candidate naming another broadcaster
OnOtherMessage(s) ==
  /\ sockets[s].readyState = "OPEN"
  /\ sent' = EmptyBag
  /\ last' = Task("other", "none", FALSE)
  /\ UNCHANGED <<isStreaming, status, viewerCount, socketRef, localStreamRef,
                 peerConnectionsRef, sockets, streams, pcs, pendingStarts,
                 uncaught, leftCount>>

\* ------------------------------------------------ peer connection events
\* the connectionState changes a live connection can report: it leaves "new"
\* only once the remote description is set, and "failed" is left only by an
\* ICE restart, which the component never requests
CanBecome(p, st) ==
  /\ ~IsClosed(p)
  /\ pcs[p].remoteSet
  /\ \/ pcs[p].connectionState = "new" /\ st \in {"connected", "failed"}
     \/ pcs[p].connectionState = "connected" /\ st \in {"disconnected", "failed"}
     \/ pcs[p].connectionState = "disconnected" /\ st \in {"connected", "failed"}

\* onconnectionstatechange with the decrement placed after the inner if
OnConnectionStateChangeAlwaysDecrements(p, st) ==
  /\ CanBecome(p, st)
  /\ LET v == pcs[p].viewerId
         q == peerConnectionsRef[v]
         changed == [pcs EXCEPT ![p].connectionState = st]
     IN /\ IF st \in TerminalStates /\ q # 0
           THEN /\ pcs' = ClosePcs(changed, {q})
                /\ peerConnectionsRef' = [peerConnectionsRef EXCEPT ![v] = 0]
                /\ leftCount' = -1
           ELSE /\ pcs' = changed
                /\ UNCHANGED <<peerConnectionsRef, leftCount>>
        /\ setViewerCount(IF st \in TerminalStates
                          THEN Decrement(viewerCount) ELSE viewerCount)
  /\ sent' = EmptyBag
  /\ last' = Task("connectionstatechange", pcs[p].viewerId,
                  st \in TerminalStates /\ peerConnectionsRef[pcs[p].viewerId] # 0)
  /\ UNCHANGED <<isStreaming, status, socketRef, localStreamRef, sockets,
                 streams, pendingStarts, uncaught>>

\* onconnectionstatechange of pcs[p], whose connectionState became st: in a
\* terminal state the connection stored under the viewer id of p, if any, is
\* closed and its key deleted, and the count is decremented
OnConnectionStateChange(p, st) ==
  /\ CanBecome(p, st)
  /\ LET v == pcs[p].viewerId
         q == peerConnectionsRef[v]
         changed == [pcs EXCEPT ![p].connectionState = st]
     IN IF st \in TerminalStates /\ q # 0
        THEN /\ pcs' = ClosePcs(changed, {q})
             /\ peerConnectionsRef' = [peerConnectionsRef EXCEPT ![v] = 0]
             /\ setViewerCount(Decrement(viewerCount))
             /\ leftCount' = -1
        ELSE /\ pcs' = changed
             /\ UNCHANGED <<peerConnectionsRef, viewerCount, leftCount>>
  /\ sent' = EmptyBag
  /\ last' = Task("connectionstatechange", pcs[p].viewerId,
                  st \in TerminalStates /\ peerConnectionsRef[pcs[p].viewerId] # 0)
  /\ UNCHANGED <<isStreaming, status, socketRef, localStreamRef, sockets,
                 streams, pendingStarts, uncaught>>

\* the test without the readyState comparison
CanSendCandidateAnyState(cand) ==
  /\ cand # "null"
  /\ socketRef # 0

\* the test onicecandidate makes before sending
CanSendCandidate(cand) ==
  /\ cand # "null"
  /\ socketRef # 0
  /\ sockets[socketRef].readyState = "OPEN"

\* onicecandidate of pcs[p] (gathering runs once the local description is
\* set; cand = "null" is the end-of-candidates event)
OnIceCandidateEvent(p, cand) ==
  /\ ~IsClosed(p)
  /\ pcs[p].signalingState = "have-local-offer" \/ pcs[p].remoteSet
  /\ LET r == RefSend(sockets, Envelope("ice_candidate", pcs[p].viewerId, cand))
     IN IF CanSendCandidate(cand)
        THEN /\ sent' = r[2]
             /\ uncaught' = (uncaught \/ r[1])
        ELSE /\ sent' = EmptyBag
             /\ UNCHANGED uncaught
  /\ last' = Task(IF cand = "null" THEN "icecandidate_end" ELSE "icecandidate",
                  pcs[p].viewerId, CanSendCandidate(cand))
  /\ UNCHANGED <<isStreaming, status, viewerCount, socketRef, localStreamRef,
                 peerConnectionsRef, sockets, streams, pcs, pendingStarts,
                 leftCount>>

\* ---------------------------------------------------------- specification
\* a task of the WebRTC broadcaster leaves the other components alone
Next ==
  \/ BetweenTasks /\ StartStreaming /\ UNCHANGED <<component, mounted, snapshot, viewer>>
  \/ \E constructed \in BOOLEAN :
        BetweenTasks /\ MediaGranted(constructed) /\ UNCHANGED <<component, mounted, snapshot, viewer>>
  \/ BetweenTasks /\ MediaDenied /\ UNCHANGED <<component, mounted, snapshot, viewer>>
  \/ BetweenTasks /\ StopStreaming /\ UNCHANGED <<component, mounted, snapshot, viewer>>
  \/ BetweenTasks /\ Unmount /\ UNCHANGED <<component, snapshot, viewer>>
  \/ BetweenTasks /\ FetchStreamIdFailed /\ UNCHANGED <<component, mounted, snapshot, viewer>>
  \/ \E s \in 1..Len(sockets) :
        BetweenTasks /\ SocketOnOpen(s) /\ UNCHANGED <<component, mounted, snapshot, viewer>>
  \/ \E s \in 1..Len(sockets) :
        BetweenTasks /\ SocketClosing(s) /\ UNCHANGED <<component, mounted, snapshot, viewer>>
  \/ \E s \in 1..Len(sockets) :
        SocketOnClose(s) /\ UNCHANGED <<component, mounted, snapshot, viewer>>
  \/ \E s \in 1..Len(sockets) :
        BetweenTasks /\ SocketOnError(s) /\ UNCHANGED <<component, mounted, snapshot, viewer>>
  \/ \E s \in 1..Len(sockets), v \in Viewers :
        BetweenTasks /\ OnViewerJoined(s, v) /\ UNCHANGED <<component, mounted, snapshot, viewer>>
  \/ \E p \in 1..Len(pcs), resolved \in BOOLEAN :
        BetweenTasks /\ OfferCreated(p, resolved) /\ UNCHANGED <<component, mounted, snapshot, viewer>>
  \/ \E p \in 1..Len(pcs), resolved \in BOOLEAN :
        BetweenTasks /\ LocalDescriptionSet(p, resolved) /\ UNCHANGED <<component, mounted, snapshot, viewer>>
  \/ \E s \in 1..Len(sockets), v \in Viewers :
        BetweenTasks /\ OnAnswer(s, v) /\ UNCHANGED <<component, mounted, snapshot, viewer>>
  \/ \E p \in 1..Len(pcs), resolved \in BOOLEAN :
        BetweenTasks /\ RemoteDescriptionSet(p, resolved) /\ UNCHANGED <<component, mounted, snapshot, viewer>>
  \/ \E s \in 1..Len(sockets), v \in Viewers :
        BetweenTasks /\ OnIceCandidate(s, v) /\ UNCHANGED <<component, mounted, snapshot, viewer>>
  \/ \E s \in 1..Len(sockets), v \in Viewers :
        BetweenTasks /\ OnViewerLeft(s, v) /\ UNCHANGED <<component, mounted, snapshot, viewer>>
  \/ \E s \in 1..Len(sockets) :
        BetweenTasks /\ OnOtherMessage(s) /\ UNCHANGED <<component, mounted, snapshot, viewer>>
  \/ \E p \in 1..Len(pcs), st \in {"connected", "disconnected", "failed"} :
        BetweenTasks /\ OnConnectionStateChange(p, st) /\ UNCHANGED <<component, mounted, snapshot, viewer>>
  \/ \E p \in 1..Len(pcs), cand \in {"candidate", "null"} :
        BetweenTasks /\ OnIceCandidateEvent(p, cand) /\ UNCHANGED <<component, mounted, snapshot, viewer>>
Spec == Init /\ [][Next]_vars

\* ================================================== snapshot broadcaster
\* stopSendingFrames on the state b: the timer frameIntervalRef refers to, if
\* any, is cleared and the ref nulled
StopSendingFrames(b) ==
  IF b.frameIntervalRef # 0
  THEN [b EXCEPT !.timers[b.frameIntervalRef].active = FALSE,
                 !.frameIntervalRef = 0]
  ELSE b

\* startSendingFrames, run by a closure that captured fps f, on the state b:
\* a new interval timer of period 1000 / f is stored in frameIntervalRef
\* (whatever the ref held before)
StartSendingFrames(b, f) ==
  [b EXCEPT !.timers = Append(@, [active |-> TRUE, period |-> 1000 \div f]),
            !.frameIntervalRef = Len(b.timers) + 1]

\* socketRef.current.close() on the state b
SnapshotCloseSocket(b) ==
  [b EXCEPT !.sockets[b.socketRef].readyState =
               IF @ \in {"CONNECTING", "OPEN"} THEN "CLOSING" ELSE @]

VideoFrame(s) ==
  [type |-> "video_frame", broadcaster_id |-> BroadcasterId,
   frame |-> "data:image/jpeg", sock |-> s]

\* no error event of a socket has been dispatched whose close event is still
\* to follow in the same task
SnapshotBetweenTasks ==
  \A s \in 1..Len(snapshot.sockets) : ~snapshot.sockets[s].closeDue

\* the useState values of an unmounted component never change: new with
\* the state values of old
KeepState(old, new) ==
  [new EXCEPT !.isStreaming = old.isStreaming,
              !.status = old.status,
              !.viewerCount = old.viewerCount,
              !.fps = old.fps]

\* the state a task leaves that turns old into new by refs, browser objects
\* and useState setters: the setters of an unmounted component are dropped
Rendered(old, new) == IF mounted THEN new ELSE KeepState(old, new)

\* Start button (rendered while mounted and !isStreaming, so also while an
\* earlier start still waits for the camera or for its socket to open):
\* startStreaming runs up to its await of getUserMedia, in a closure that
\* holds the fps of this render.  Every call obtains at most one stream and
\* creates at most one socket.
SnapshotStartStreaming ==
  /\ mounted
  /\ ~snapshot.isStreaming
  /\ Max(Len(snapshot.streams), Len(snapshot.sockets))
       + Len(snapshot.pendingStarts) < MaxSnapshotSockets
  /\ snapshot' = [snapshot EXCEPT !.pendingStarts = Append(@, snapshot.fps)]
  /\ sent' = EmptyBag
  /\ last' = Task("startStreaming", "none", TRUE)

\* getUserMedia resolved: the stream is stored and new WebSocket is called
\* with the URL built from the stream id the server gave.  When the
\* constructor accepts the URL (constructed), the socket exists in state
\* CONNECTING and its handlers are installed; when it throws, the catch
\* block of startStreaming sets the status, the stream stays stored and live
\* and there is no socket.
SnapshotMediaGranted(constructed) ==
  /\ snapshot.pendingStarts # <<>>
  /\ LET b == [snapshot EXCEPT
                  !.pendingStarts = Tail(@),
                  !.streams = Append(@, [stopped |-> FALSE]),
                  !.streamRef = Len(snapshot.streams) + 1]
     IN snapshot' =
          IF constructed
          THEN [b EXCEPT
                  !.sockets = Append(@, [readyState |-> "CONNECTING",
                                         closureFps |-> Head(snapshot.pendingStarts),
                                         closeDue |-> FALSE]),
                  !.socketRef = Len(snapshot.sockets) + 1]
          ELSE Rendered(snapshot, [b EXCEPT !.status = "Error: WebSocket"])
  /\ sent' = EmptyBag
  /\ last' = Task("getUserMedia", "none", TRUE)

\* getUserMedia rejected: the catch block of startStreaming
SnapshotMediaDenied ==
  /\ snapshot.pendingStarts # <<>>
  /\ snapshot' = Rendered(snapshot,
                          [snapshot EXCEPT !.pendingStarts = Tail(@),
                                           !.status = "Error: getUserMedia"])
  /\ sent' = EmptyBag
  /\ last' = Task("getUserMedia", "none", FALSE)

\* the body of stopStreaming on the state b
SnapshotStopStreamingBody(b) ==
  LET b1 == StopSendingFrames(b)
      b2 == IF b1.socketRef # 0
            THEN [SnapshotCloseSocket(b1) EXCEPT !.socketRef = 0]
            ELSE b1
      b3 == IF b2.streamRef # 0
            THEN [b2 EXCEPT !.streams[b2.streamRef].stopped = TRUE,
                            !.streamRef = 0]
            ELSE b2
  IN [b3 EXCEPT !.isStreaming = FALSE,
                !.status = "Stream ended",
                !.viewerCount = 0,
                !.viewers = {}]

\* Stop button (rendered while mounted and isStreaming)
SnapshotStopStreaming ==
  /\ mounted
  /\ snapshot.isStreaming
  /\ snapshot' = SnapshotStopStreamingBody(snapshot)
  /\ sent' = EmptyBag
  /\ last' = Task("stopStreaming", "none", TRUE)

\* the component unmounts (the route changes): the cleanup of the mount
\* effect calls stopStreaming whatever isStreaming is; the setters it calls
\* reach a component that is gone
SnapshotUnmount ==
  /\ mounted
  /\ mounted' = FALSE
  /\ snapshot' = KeepState(snapshot, SnapshotStopStreamingBody(snapshot))
  /\ sent' = EmptyBag
  /\ last' = Task("stopStreaming", "none", TRUE)

\* a fetch of fetchStreamId rejects: the catch block sets the status.  The
\* mount effect starts one fetch and every click on "Generate New Stream ID"
\* (enabled while !isStreaming) one more, so one can settle at any time.  A
\* fetch that resolves stores the stream id, which is not part of this
\* state: that step changes nothing here.
SnapshotFetchStreamIdFailed ==
  /\ snapshot' = Rendered(snapshot,
                          [snapshot EXCEPT !.status = "Error fetching stream ID"])
  /\ sent' = EmptyBag
  /\ last' = Task("fetchStreamId", "none", FALSE)

\* open event of sockets[s]: startSendingFrames runs in the closure of the
\* startStreaming call that created the socket.  Once the component is
\* unmounted canvasRef.current is null, so startSendingFrames throws at
\* canvas.getContext before it sets a timer.
SnapshotSocketOnOpen(s) ==
  /\ snapshot.sockets[s].readyState = "CONNECTING"
  /\ mounted => Len(snapshot.timers) < MaxSnapshotTimers
  /\ snapshot' =
       IF mounted
       THEN StartSendingFrames(
              [snapshot EXCEPT !.sockets[s].readyState = "OPEN",
                               !.status = "Connected to server, streaming active",
                               !.isStreaming = TRUE],
              snapshot.sockets[s].closureFps)
       ELSE [snapshot EXCEPT !.sockets[s].readyState = "OPEN"]
  /\ sent' = EmptyBag
  /\ last' = Task("open", "none", TRUE)

\* a handler that counts envelopes instead of reading the size of the set
SnapshotOnViewerUpdateCountsEnvelopes(s, action, v) ==
  /\ snapshot.sockets[s].readyState = "OPEN"
  /\ LET vs == IF action = "joined" THEN snapshot.viewers \cup {v}
                                    ELSE snapshot.viewers \ {v}
     IN snapshot' =
          Rendered(snapshot,
                   [snapshot EXCEPT
                      !.viewers = vs,
                      !.viewerCount = IF action = "joined" THEN @ + 1
                                                           ELSE Max(0, @ - 1)])
  /\ sent' = EmptyBag
  /\ last' = Task(action, v, v \in snapshot.viewers)

\* viewer_update on sockets[s] with action joined or left for viewer v
SnapshotOnViewerUpdate(s, action, v) ==
  /\ snapshot.sockets[s].readyState = "OPEN"
  /\ LET vs == IF action = "joined" THEN snapshot.viewers \cup {v}
                                    ELSE snapshot.viewers \ {v}
     IN snapshot' = Rendered(snapshot,
                             [snapshot EXCEPT !.viewers = vs,
                                              !.viewerCount = Cardinality(vs)])
  /\ sent' = EmptyBag
  /\ last' = Task(action, v, v \in snapshot.viewers)

\* a message that is not JSON, or of another type or action
SnapshotOnOtherMessage(s) ==
  /\ snapshot.sockets[s].readyState = "OPEN"
  /\ UNCHANGED snapshot
  /\ sent' = EmptyBag
  /\ last' = Task("other", "none", FALSE)

\* the peer's Close frame arrives on sockets[s]: the browser starts the
\* closing handshake and readyState becomes CLOSING.  No handler runs; the
\* close event follows in a later task, once the connection is closed.
SnapshotSocketClosing(s) ==
  /\ snapshot.sockets[s].readyState = "OPEN"
  /\ snapshot' = [snapshot EXCEPT !.sockets[s].readyState = "CLOSING"]
  /\ sent' = EmptyBag
  /\ last' = Task("closing", "none", FALSE)

\* close event of sockets[s], whichever socket that is: the connection is
\* closed (the closing handshake the peer or a close() call started has
\* completed, or the connection was lost, or it failed and the error
\* handler has just run) and readyState is CLOSED
SnapshotSocketOnClose(s) ==
  /\ \/ snapshot.sockets[s].closeDue
     \/ SnapshotBetweenTasks /\ snapshot.sockets[s].readyState # "CLOSED"
  /\ snapshot' =
       Rendered(snapshot,
                StopSendingFrames(
                  [snapshot EXCEPT !.sockets[s].readyState = "CLOSED",
                                   !.sockets[s].closeDue = FALSE,
                                   !.status = "Connection closed",
                                   !.isStreaming = FALSE]))
  /\ sent' = EmptyBag
  /\ last' = Task("close", "none", s = snapshot.socketRef)

\* error event of sockets[s]: the connection failed.  The socket is CLOSED
\* when the handler runs, and its close event is fired next, in the same
\* task.
SnapshotSocketOnError(s) ==
  /\ snapshot.sockets[s].readyState # "CLOSED"
  /\ snapshot' = Rendered(snapshot,
                          [snapshot EXCEPT !.sockets[s].readyState = "CLOSED",
                                           !.sockets[s].closeDue = TRUE,
                                           !.status = "Connection error"])
  /\ sent' = EmptyBag
  /\ last' = Task("error", "none", TRUE)

\* the test captureAndSendFrame makes before drawing and sending
CanSendFrame(b) ==
  b.socketRef # 0 /\ b.sockets[b.socketRef].readyState = "OPEN"

\* a tick of the interval timer t: captureAndSendFrame
CaptureAndSendFrame(t) ==
  /\ snapshot.timers[t].active
  /\ UNCHANGED snapshot
  /\ sent' = IF CanSendFrame(snapshot)
             THEN SetToBag({VideoFrame(snapshot.socketRef)})
             ELSE EmptyBag
  /\ last' = Task("frame", "none", CanSendFrame(snapshot))

\* the FPS slider moved to n: setFps(n), and while streaming the timer is
\* restarted by the startSendingFrames of the current render, whose fps is
\* the value before this change.  The quality slider restarts the timer in
\* the same way (n = the current fps).
HandleFpsChange(n) ==
  /\ mounted
  /\ snapshot.isStreaming => Len(snapshot.timers) < MaxSnapshotTimers
  /\ LET b == [snapshot EXCEPT !.fps = n]
     IN snapshot' = IF snapshot.isStreaming
                    THEN StartSendingFrames(StopSendingFrames(b), snapshot.fps)
                    ELSE b
  /\ sent' = EmptyBag
  /\ last' = Task("fps", "none", snapshot.isStreaming)

\* a task of the snapshot broadcaster leaves the other components alone
NextSnapshot ==
  \/ SnapshotBetweenTasks /\ SnapshotStartStreaming /\ UNCHANGED <<component, mounted, viewer, webrtcVars>>
  \/ \E constructed \in BOOLEAN :
        SnapshotBetweenTasks /\ SnapshotMediaGranted(constructed) /\ UNCHANGED <<component, mounted, viewer, webrtcVars>>
  \/ SnapshotBetweenTasks /\ SnapshotMediaDenied /\ UNCHANGED <<component, mounted, viewer, webrtcVars>>
  \/ SnapshotBetweenTasks /\ SnapshotStopStreaming /\ UNCHANGED <<component, mounted, viewer, webrtcVars>>
  \/ SnapshotBetweenTasks /\ SnapshotUnmount /\ UNCHANGED <<component, viewer, webrtcVars>>
  \/ SnapshotBetweenTasks /\ SnapshotFetchStreamIdFailed /\ UNCHANGED <<component, mounted, viewer, webrtcVars>>
  \/ \E s \in 1..Len(snapshot.sockets) :
        SnapshotBetweenTasks /\ SnapshotSocketOnOpen(s) /\ UNCHANGED <<component, mounted, viewer, webrtcVars>>
  \/ \E s \in 1..Len(snapshot.sockets), a \in {"joined", "left"}, v \in Viewers :
        SnapshotBetweenTasks /\ SnapshotOnViewerUpdate(s, a, v) /\ UNCHANGED <<component, mounted, viewer, webrtcVars>>
  \/ \E s \in 1..Len(snapshot.sockets) :
        SnapshotBetweenTasks /\ SnapshotOnOtherMessage(s) /\ UNCHANGED <<component, mounted, viewer, webrtcVars>>
  \/ \E s \in 1..Len(snapshot.sockets) :
        SnapshotBetweenTasks /\ SnapshotSocketClosing(s) /\ UNCHANGED <<component, mounted, viewer, webrtcVars>>
  \/ \E s \in 1..Len(snapshot.sockets) :
        SnapshotSocketOnClose(s) /\ UNCHANGED <<component, mounted, viewer, webrtcVars>>
  \/ \E s \in 1..Len(snapshot.sockets) :
        SnapshotBetweenTasks /\ SnapshotSocketOnError(s) /\ UNCHANGED <<component, mounted, viewer, webrtcVars>>
  \/ \E t \in 1..Len(snapshot.timers) :
        SnapshotBetweenTasks /\ CaptureAndSendFrame(t) /\ UNCHANGED <<component, mounted, viewer, webrtcVars>>
  \/ \E n \in FpsChoices :
        SnapshotBetweenTasks /\ HandleFpsChange(n) /\ UNCHANGED <<component, mounted, viewer, webrtcVars>>

\* the page shows the snapshot broadcaster
InitSnapshot ==
  /\ component = "snapshot"
  /\ mounted = TRUE
  /\ snapshot = SnapshotInit
  /\ viewer = ViewerUnmounted
  /\ isStreaming = FALSE
  /\ status = "Ready to stream"
  /\ viewerCount = 0
  /\ socketRef = 0
  /\ localStreamRef = 0
  /\ peerConnectionsRef = [v \in Viewers |-> 0]
  /\ sockets = <<>>
  /\ streams = <<>>
  /\ pcs = <<>>
  /\ pendingStarts = 0
  /\ sent = EmptyBag
  /\ uncaught = FALSE
  /\ leftCount = 0
  /\ last = NoTask

SpecSnapshot == InitSnapshot /\ [][NextSnapshot]_vars

\* ================================================================= viewer
\* the viewerId ref of this component
ViewerId == "viewer_me"

\* setTimeout delay of the viewer_joined announcement
AnnounceDelay == 500

\* setTimeout delay of the Reconnect button's socket creation
RecreateDelay == 100

Min(a, b) == IF a <= b THEN a ELSE b

\* a delay that keeps growing with the attempts
ReconnectDelayUncapped(attempts) == 3000 * attempts + 1000

\* the delay onclose computes from the attempts made so far
ReconnectDelay(attempts) == Min(3000 * attempts + 1000, 10000)

\* reconnectTimerRef.current = null
NoReconnectTimer == [isNull |-> TRUE, timer |-> 0, attempts |-> 0]

\* frames as character sequences
DataImageFrame == <<"d", "a", "t", "a", ":", "i", "m", "a", "g", "e", "/", "1">>
BlobFrame == <<"b", "l", "o", "b", ":", "2">>
OtherFrame == <<"d", "a", "t", "a", ":", "t", "e", "x", "t">>
NoFrame == <<>>

\* String.prototype.startsWith
StartsWith(str, prefix) ==
  /\ Len(str) >= Len(prefix)
  /\ SubSeq(str, 1, Len(prefix)) = prefix

\* a test that accepts every data: URL
IsValidFrameAnyDataUrl(frame) ==
  /\ frame # NoFrame
  /\ \/ StartsWith(frame, <<"d", "a", "t", "a", ":">>)
     \/ StartsWith(frame, <<"b", "l", "o", "b", ":">>)

\* the test onmessage makes on data.frame (undefined is NoFrame)
IsValidFrame(frame) ==
  /\ frame # NoFrame
  /\ \/ StartsWith(frame, <<"d", "a", "t", "a", ":", "i", "m", "a", "g", "e">>)
     \/ StartsWith(frame, <<"b", "l", "o", "b", ":">>)

\* stream ids the route can carry, as character sequences
StreamIds == {<<"a", "b">>, <<"a", "#", "b">>}

\* new WebSocket(`ws://localhost:8000/ws/broadcast/${streamId}/`) returns a
\* socket; it throws SyntaxError when the URL has a fragment, which a '#' in
\* the stream id starts
Constructs(streamId) == \A i \in 1..Len(streamId) : streamId[i] # "#"

\* the viewer as its first render leaves it, before its effect runs.
\* socketRef is an index into sockets (0 = null), image the frame the img
\* element shows (NoFrame while it is hidden); a socket's handlers field
\* tells whether onopen, onmessage and onclose are installed on it, its
\* announced field (history) whether a viewer_joined envelope was sent on
\* it, and a timer's sock (history) the socket whose event set it;
\* unhandled tells whether a promise was rejected with no handler.
ViewerConstructed(streamId) ==
  [streamId |-> streamId,
   isMounted |-> TRUE,
   status |-> "Connecting to stream...",
   isConnected |-> FALSE,
   frameCount |-> 0,
   lastFrameTime |-> FALSE,
   viewersCount |-> 0,
   image |-> NoFrame,
   socketRef |-> 0,
   reconnectTimerRef |-> NoReconnectTimer,
   sockets |-> <<>>,
   timers |-> <<>>,
   unhandled |-> FALSE]

\* WebSocket.close() on socket s of the state w
ViewerCloseSocket(w, s) ==
  [w EXCEPT !.sockets[s].readyState =
               IF @ \in {"CONNECTING", "OPEN"} THEN "CLOSING" ELSE @]

\* setTimeout on the state w
SetTimeout(w, kind, delay, s) ==
  [w EXCEPT !.timers = Append(@, [kind |-> kind, state |-> "pending",
                                  delay |-> delay, sock |-> s])]

\* clearTimeout(id) on the state w: a pending timer never fires
ClearTimeout(w, id) ==
  [w EXCEPT !.timers[id].state = IF @ = "pending" THEN "cleared" ELSE @]

\* timers fire in the order the event loop guarantees: never before a timer
\* that was set earlier with a delay not longer
CanFire(t) ==
  /\ viewer.timers[t].state = "pending"
  /\ \A u \in 1..(t - 1) :
        viewer.timers[u].state = "pending" =>
           viewer.timers[u].delay > viewer.timers[t].delay

\* the handlers of socket s run: they are installed and the component is
\* mounted
Handles(s) == viewer.sockets[s].handlers /\ viewer.isMounted

\* connectToStream on the state w: the socket socketRef holds is closed
\* and the ref nulled; then the constructor either returns the new socket,
\* on which the handlers are installed, or throws into the catch block,
\* which sets the status and leaves the ref null
ConnectToStream(w) ==
  IF ~w.isMounted THEN w
  ELSE LET w1 == IF w.socketRef # 0
                 THEN [ViewerCloseSocket(w, w.socketRef) EXCEPT !.socketRef = 0]
                 ELSE w
       IN IF Constructs(w.streamId)
          THEN [w1 EXCEPT !.status = "Connecting to stream...",
                          !.sockets = Append(@, [readyState |-> "CONNECTING",
                                                 handlers |-> TRUE,
                                                 announced |-> FALSE]),
                          !.socketRef = Len(w.sockets) + 1]
          ELSE [w1 EXCEPT !.status = "Failed to create connection"]

\* the viewer after its effect ran on mount: the first connectToStream call
\* has been made
ViewerInit(streamId) == ConnectToStream(ViewerConstructed(streamId))

\* open event of sockets[s]
ViewerSocketOnOpen(s) ==
  /\ viewer.sockets[s].readyState = "CONNECTING"
  /\ Handles(s) => Len(viewer.timers) < MaxViewerTimers
  /\ LET w == [viewer EXCEPT !.sockets[s].readyState = "OPEN"]
     IN viewer' =
          IF Handles(s)
          THEN SetTimeout([w EXCEPT !.status = "Connected to stream - waiting for video",
                                    !.isConnected = TRUE],
                          "announce", AnnounceDelay, s)
          ELSE w
  /\ sent' = EmptyBag
  /\ last' = Task("open", "none", Handles(s))

\* the announcement timer t fires
AnnounceTimer(t) ==
  /\ viewer.timers[t].kind = "announce"
  /\ CanFire(t)
  /\ LET ok == /\ viewer.socketRef # 0
               /\ viewer.sockets[viewer.socketRef].readyState = "OPEN"
     IN /\ sent' = IF ok
                   THEN SetToBag({[type |-> "viewer_joined",
                                   viewer_id |-> ViewerId,
                                   sock |-> viewer.socketRef]})
                   ELSE EmptyBag
        /\ last' = Task("announce", "none", ok)
        /\ viewer' = IF ok
                     THEN [viewer EXCEPT !.timers[t].state = "fired",
                                         !.sockets[viewer.socketRef].announced = TRUE]
                     ELSE [viewer EXCEPT !.timers[t].state = "fired"]

\* a video_frame message on sockets[s] carrying frame
ViewerOnVideoFrame(s, frame) ==
  /\ viewer.sockets[s].readyState = "OPEN"
  /\ IsValidFrame(frame) /\ Handles(s) => viewer.frameCount < MaxFrames
  /\ viewer' =
       IF IsValidFrame(frame) /\ Handles(s)
       THEN [viewer EXCEPT !.image = frame,
                           !.frameCount = @ + 1,
                           !.lastFrameTime = TRUE,
                           !.status = "Receiving video stream"]
       ELSE viewer
  /\ sent' = EmptyBag
  /\ last' = Task("video_frame", "none", IsValidFrame(frame) /\ Handles(s))

\* a viewer_update message on sockets[s] carrying viewers_count n
ViewerOnViewerUpdate(s, n) ==
  /\ viewer.sockets[s].readyState = "OPEN"
  /\ viewer' = IF n # 0 /\ Handles(s)
               THEN [viewer EXCEPT !.viewersCount = n]
               ELSE viewer
  /\ sent' = EmptyBag
  /\ last' = Task("viewer_update", "none", n # 0 /\ Handles(s))

\* a message that is not JSON or of an unknown type
ViewerOnOtherMessage(s) ==
  /\ viewer.sockets[s].readyState = "OPEN"
  /\ UNCHANGED viewer
  /\ sent' = EmptyBag
  /\ last' = Task("other", "none", FALSE)

\* the peer's Close frame arrives on sockets[s]: the browser starts the
\* closing handshake and readyState becomes CLOSING.  No handler runs; the
\* close event follows in a later task, once the connection is closed.
ViewerSocketClosing(s) ==
  /\ viewer.sockets[s].readyState = "OPEN"
  /\ viewer' = [viewer EXCEPT !.sockets[s].readyState = "CLOSING"]
  /\ sent' = EmptyBag
  /\ last' = Task("closing", "none", FALSE)

\* close event of sockets[s]: the connection is closed (the closing
\* handshake the peer or a close() call started has completed, or the
\* connection failed or was lost), readyState is CLOSED and onclose runs
ViewerSocketOnClose(s) ==
  /\ viewer.sockets[s].readyState # "CLOSED"
  /\ Handles(s) => Len(viewer.timers) < MaxViewerTimers
  /\ LET w == [viewer EXCEPT !.sockets[s].readyState = "CLOSED"]
         attempts == viewer.reconnectTimerRef.attempts
     IN viewer' =
          IF Handles(s)
          THEN [SetTimeout([w EXCEPT !.status = "Disconnected",
                                     !.isConnected = FALSE],
                           "reconnect", ReconnectDelay(attempts), s)
                  EXCEPT !.reconnectTimerRef =
                            [isNull |-> FALSE,
                             timer |-> Len(viewer.timers) + 1,
                             attempts |-> attempts + 1]]
          ELSE w
  /\ sent' = EmptyBag
  /\ last' = Task("close", "none", Handles(s))

\* the automatic reconnect timer t fires: connectToStream
ReconnectTimer(t) ==
  /\ viewer.timers[t].kind = "reconnect"
  /\ CanFire(t)
  /\ (viewer.isMounted /\ Constructs(viewer.streamId))
       => Len(viewer.sockets) < MaxViewerSockets
  /\ viewer' = ConnectToStream([viewer EXCEPT !.timers[t].state = "fired"])
  /\ sent' = EmptyBag
  /\ last' = Task("reconnect_timer", "none", viewer.isMounted)

\* Reconnect button: the current socket is closed (the ref keeps it), the
\* pending automatic reconnect is cancelled, the frame counters are reset
\* and the creation of a socket is scheduled
ReconnectClick ==
  /\ viewer.isMounted
  /\ Len(viewer.timers) < MaxViewerTimers
  /\ LET w1 == IF viewer.socketRef # 0
               THEN ViewerCloseSocket(viewer, viewer.socketRef)
               ELSE viewer
         w2 == IF ~w1.reconnectTimerRef.isNull
               THEN [ClearTimeout(w1, w1.reconnectTimerRef.timer)
                       EXCEPT !.reconnectTimerRef = NoReconnectTimer]
               ELSE w1
     IN viewer' = SetTimeout([w2 EXCEPT !.frameCount = 0,
                                        !.lastFrameTime = FALSE],
                             "recreate", RecreateDelay, 0)
  /\ sent' = EmptyBag
  /\ last' = Task("reconnect_click", "none", TRUE)

\* the Reconnect button's timer creating its socket without testing
\* isMountedRef
RecreateTimerIgnoresMount(t) ==
  /\ viewer.timers[t].kind = "recreate"
  /\ CanFire(t)
  /\ Constructs(viewer.streamId) => Len(viewer.sockets) < MaxViewerSockets
  /\ LET w == [viewer EXCEPT !.timers[t].state = "fired"]
     IN viewer' =
          IF Constructs(viewer.streamId)
          THEN [w EXCEPT !.sockets = Append(@, [readyState |-> "CONNECTING",
                                                handlers |-> FALSE,
                                                announced |-> FALSE]),
                         !.socketRef = Len(viewer.sockets) + 1]
          ELSE [w EXCEPT !.unhandled = TRUE]
  /\ sent' = EmptyBag
  /\ last' = Task("recreate_timer", "none", viewer.isMounted)

\* the timer t set by the Reconnect button fires: on the mounted component
\* a socket is created and stored in socketRef, with no handler installed
\* on it.  When the constructor throws, the async function the callback
\* calls returns a rejected promise nothing handles, and socketRef keeps
\* what it held.
RecreateTimer(t) ==
  /\ viewer.timers[t].kind = "recreate"
  /\ CanFire(t)
  /\ (viewer.isMounted /\ Constructs(viewer.streamId))
       => Len(viewer.sockets) < MaxViewerSockets
  /\ LET w == [viewer EXCEPT !.timers[t].state = "fired"]
     IN viewer' =
          IF ~viewer.isMounted THEN w
          ELSE IF Constructs(viewer.streamId)
          THEN [w EXCEPT !.sockets = Append(@, [readyState |-> "CONNECTING",
                                                handlers |-> FALSE,
                                                announced |-> FALSE]),
                         !.socketRef = Len(viewer.sockets) + 1]
          ELSE [w EXCEPT !.unhandled = TRUE]
  /\ sent' = EmptyBag
  /\ last' = Task("recreate_timer", "none", viewer.isMounted)

\* Check Broadcaster button (always rendered)
CheckBroadcaster ==
  /\ viewer.isMounted
  /\ LET ok == /\ viewer.socketRef # 0
               /\ viewer.sockets[viewer.socketRef].readyState = "OPEN"
     IN /\ sent' = IF ok
                   THEN SetToBag({[type |-> "check_broadcaster",
                                   viewer_id |-> ViewerId,
                                   sock |-> viewer.socketRef]})
                   ELSE EmptyBag
        /\ last' = Task("check_broadcaster", "none", ok)
  /\ viewer' = [viewer EXCEPT !.status = "Checking broadcaster status..."]

\* the effect's cleanup on unmount
ViewerUnmount ==
  /\ viewer.isMounted
  /\ LET w1 == [viewer EXCEPT !.isMounted = FALSE]
         w2 == IF ~w1.reconnectTimerRef.isNull
               THEN ClearTimeout(w1, w1.reconnectTimerRef.timer)
               ELSE w1
     IN viewer' =
          IF w2.socketRef # 0
          THEN [ViewerCloseSocket(w2, w2.socketRef)
                  EXCEPT !.sockets[w2.socketRef].handlers = FALSE]
          ELSE w2
  /\ sent' = EmptyBag
  /\ last' = Task("unmount", "none", TRUE)

\* a task of the viewer leaves the other components alone
NextViewer ==
  \/ \E s \in 1..Len(viewer.sockets) :
        ViewerSocketOnOpen(s) /\ UNCHANGED <<component, mounted, snapshot, webrtcVars>>
  \/ \E t \in 1..Len(viewer.timers) :
        AnnounceTimer(t) /\ UNCHANGED <<component, mounted, snapshot, webrtcVars>>
  \/ \E s \in 1..Len(viewer.sockets),
        frame \in {DataImageFrame, BlobFrame, OtherFrame, NoFrame} :
        ViewerOnVideoFrame(s, frame)
          /\ UNCHANGED <<component, mounted, snapshot, webrtcVars>>
  \/ \E s \in 1..Len(viewer.sockets), n \in {0, 2} :
        ViewerOnViewerUpdate(s, n)
          /\ UNCHANGED <<component, mounted, snapshot, webrtcVars>>
  \/ \E s \in 1..Len(viewer.sockets) :
        ViewerOnOtherMessage(s) /\ UNCHANGED <<component, mounted, snapshot, webrtcVars>>
  \/ \E s \in 1..Len(viewer.sockets) :
        ViewerSocketClosing(s) /\ UNCHANGED <<component, mounted, snapshot, webrtcVars>>
  \/ \E s \in 1..Len(viewer.sockets) :
        ViewerSocketOnClose(s) /\ UNCHANGED <<component, mounted, snapshot, webrtcVars>>
  \/ \E t \in 1..Len(viewer.timers) :
        ReconnectTimer(t) /\ UNCHANGED <<component, mounted, snapshot, webrtcVars>>
  \/ ReconnectClick /\ UNCHANGED <<component, mounted, snapshot, webrtcVars>>
  \/ \E t \in 1..Len(viewer.timers) :
        RecreateTimer(t) /\ UNCHANGED <<component, mounted, snapshot, webrtcVars>>
  \/ CheckBroadcaster /\ UNCHANGED <<component, mounted, snapshot, webrtcVars>>
  \/ ViewerUnmount /\ UNCHANGED <<component, mounted, snapshot, webrtcVars>>

\* the page shows the viewer, under a route with one of the stream ids
InitViewer ==
  /\ component = "viewer"
  /\ mounted = FALSE
  /\ snapshot = SnapshotInit
  /\ \E streamId \in StreamIds : viewer = ViewerInit(streamId)
  /\ isStreaming = FALSE
  /\ status = "Ready to stream"
  /\ viewerCount = 0
  /\ socketRef = 0
  /\ localStreamRef = 0
  /\ peerConnectionsRef = [v \in Viewers |-> 0]
  /\ sockets = <<>>
  /\ streams = <<>>
  /\ pcs = <<>>
  /\ pendingStarts = 0
  /\ sent = EmptyBag
  /\ uncaught = FALSE
  /\ leftCount = 0
  /\ last = NoTask

SpecViewer == InitViewer /\ [][NextViewer]_vars

\* ------------------------------------------- viewer, after j reconnections
\* the viewer after j automatic reconnections that never opened (there are
\* none under a stream id that gives the viewer no socket): j close
\* events were handled, the j timers they set have fired and the socket of
\* the last connectToStream is CONNECTING.  Of the closed sockets and the
\* fired timers only the last ones are kept, which is all the handlers can
\* still reach (socketRef is the new socket, reconnectTimerRef records the
\* last timer and the attempts made).
ViewerAfter(streamId, j) ==
  IF j = 0 THEN ViewerInit(streamId)
  ELSE [ViewerInit(streamId) EXCEPT
          !.socketRef = 2,
          !.reconnectTimerRef = [isNull |-> FALSE, timer |-> 1,
                                 attempts |-> j],
          !.sockets = <<[readyState |-> "CLOSED", handlers |-> TRUE,
                         announced |-> FALSE],
                        [readyState |-> "CONNECTING", handlers |-> TRUE,
                         announced |-> FALSE]>>,
          !.timers = <<[kind |-> "reconnect", state |-> "fired",
                        delay |-> ReconnectDelay(j - 1), sock |-> 1]>>]

\* the page shows the viewer, which has reconnected up to MaxAttempts times
InitViewerReconnects ==
  /\ component = "viewer"
  /\ mounted = FALSE
  /\ snapshot = SnapshotInit
  /\ \E streamId \in StreamIds, j \in 0..MaxAttempts :
        /\ j > 0 => Constructs(streamId)
        /\ viewer = ViewerAfter(streamId, j)
  /\ isStreaming = FALSE
  /\ status = "Ready to stream"
  /\ viewerCount = 0
  /\ socketRef = 0
  /\ localStreamRef = 0
  /\ peerConnectionsRef = [v \in Viewers |-> 0]
  /\ sockets = <<>>
  /\ streams = <<>>
  /\ pcs = <<>>
  /\ pendingStarts = 0
  /\ sent = EmptyBag
  /\ uncaught = FALSE
  /\ leftCount = 0
  /\ last = NoTask

SpecViewerReconnects == InitViewerReconnects /\ [][NextViewer]_vars

\* ===================================================== either broadcaster
\* the page shows one of the two broadcasters
InitBroadcaster ==
  /\ component \in {"webrtc", "snapshot"}
  /\ mounted = TRUE
  /\ snapshot = SnapshotInit
  /\ viewer = ViewerUnmounted
  /\ isStreaming = FALSE
  /\ status = "Ready to stream"
  /\ viewerCount = 0
  /\ socketRef = 0
  /\ localStreamRef = 0
  /\ peerConnectionsRef = [v \in Viewers |-> 0]
  /\ sockets = <<>>
  /\ streams = <<>>
  /\ pcs = <<>>
  /\ pendingStarts = 0
  /\ sent = EmptyBag
  /\ uncaught = FALSE
  /\ leftCount = 0
  /\ last = NoTask

NextBroadcaster ==
  \/ component = "webrtc" /\ Next
  \/ component = "snapshot" /\ NextSnapshot

SpecBroadcaster == InitBroadcaster /\ [][NextBroadcaster]_vars

\* ------------------------------------------------------------- properties
SocketIsOpen == socketRef # 0 /\ sockets[socketRef].readyState = "OPEN"

OfferFor(v) ==
  SetToBag({[type |-> "offer", viewerId |-> v, broadcasterId |-> BroadcasterId,
             payload |-> "sdp", sock |-> socketRef]})

ClosedSet(pcList) ==
  {i \in 1..Len(pcList) : pcList[i].signalingState = "closed"}

\* Every viewer_joined creates one connection, and while leftCount counts
\* only viewer_left closes one: the joins, and the leaves that found their
\* viewer id in the map.
Joins == Len(pcs)
EffectiveLeaves == Cardinality(ClosedSet(pcs))

\* C1 as stated: after any sequence of viewer_joined and viewer_left
\* envelopes (and nothing else that removes viewers), once every handler has
\* completed, viewerCount is the number of joins minus the number of leaves,
\* floored at zero.
C1_CountIsJoinsMinusLeaves ==
  (Quiescent /\ leftCount >= 0) => viewerCount = Max(0, Joins - leftCount)

\* C1 amended: after any such sequence, once every viewer_joined handler
\* has run to its end, viewerCount is the number of joins minus the number
\* of leaves that found their viewer id in the map (a leave for an absent id
\* does not count).
C1_CountIsJoinsMinusEffectiveLeaves ==
  (Quiescent /\ leftCount >= 0) =>
    /\ viewerCount = Joins - EffectiveLeaves
    /\ EffectiveLeaves <= leftCount

C1_Witness ==
  /\ Quiescent /\ leftCount = 2
  /\ Joins = 2 /\ EffectiveLeaves = 1
  /\ viewerCount = 1
  /\ last.op = "viewer_left" /\ ~last.hit

\* C2: every open connection is the map's entry for its viewer id (none is
\* left open outside the map), and every map entry is an open connection of
\* that viewer.
C2_OneConnectionPerViewerNoLeak ==
  /\ \A p \in 1..Len(pcs) :
       ~IsClosed(p) => peerConnectionsRef[pcs[p].viewerId] = p
  /\ \A v \in Viewers :
       peerConnectionsRef[v] # 0 =>
         /\ pcs[peerConnectionsRef[v]].viewerId = v
         /\ ~IsClosed(peerConnectionsRef[v])

\* C3: an answer or ice_candidate envelope whose viewerId has no connection
\* in the map, or a closed one, changes neither the map, nor any connection,
\* nor viewerCount, and no error leaves the handler.
C3_UnknownTargetIsNoOp ==
  [][(/\ last'.op \in {"answer", "ice_candidate"}
      /\ \/ peerConnectionsRef[last'.viewerId] = 0
         \/ IsClosed(peerConnectionsRef[last'.viewerId]))
     => /\ UNCHANGED <<peerConnectionsRef, pcs, viewerCount>>
        /\ uncaught' = uncaught
        /\ sent' = EmptyBag]_vars

C3_Witness ==
  /\ last.op = "answer"
  /\ peerConnectionsRef[last.viewerId] = 0
  /\ SocketIsOpen
  /\ \E p \in 1..Len(pcs) : pcs[p].at = "createOffer" /\ ~IsClosed(p)

\* C4 as stated: the handler of a viewer_joined(v) received with local media
\* captured and the socket open ends having sent exactly one offer, carrying
\* v, this broadcaster's id and a session description.  (Only the step that
\* ends the handler can send.)
C4_ExactlyOneOffer ==
  [][\A p \in 1..Len(pcs) :
       (pcs[p].at # "done" /\ pcs'[p].at = "done") =>
          \E s \in 1..Len(sockets) :
             sent' = SetToBag({[type |-> "offer", viewerId |-> pcs[p].viewerId,
                                broadcasterId |-> BroadcasterId,
                                payload |-> "sdp", sock |-> s]})]_vars

\* C4 amended: the handler of viewer_joined(v) sends exactly one offer,
\* carrying v, this broadcaster's id and a session description, when
\* createOffer and setLocalDescription both resolve on the still open
\* connection and socketRef.current is then an open socket; otherwise it
\* sends none.  No offer is sent by any other task or for any other viewer.
C4_OneOfferWhenNegotiated ==
  [][/\ (last'.op = "setLocalDescription" /\ last'.hit /\ SocketIsOpen)
          => sent' = OfferFor(last'.viewerId)
     /\ ~(last'.op = "setLocalDescription" /\ last'.hit /\ SocketIsOpen)
          => \A e \in BagToSet(sent') : e.type # "offer"]_vars

C4_Witness ==
  /\ last.op = "setLocalDescription" /\ last.hit
  /\ sent = OfferFor(last.viewerId)
  /\ \E p \in 1..Len(pcs) :
        /\ pcs[p].viewerId = last.viewerId
        /\ pcs[p].signalingState = "have-local-offer"
        /\ peerConnectionsRef[last.viewerId] = p

\* C5: in the mounted component, with two distinct viewers in the map,
\* viewer_left for one of them
\* closes and removes its connection, lowers viewerCount by exactly one, and
\* leaves the other viewer's entry and connection as they were.
C5_LeaveOneOfTwo ==
  [][\A v \in Viewers, w \in Viewers :
       (/\ v # w
        /\ mounted
        /\ last'.op = "viewer_left" /\ last'.viewerId = v
        /\ peerConnectionsRef[v] # 0 /\ peerConnectionsRef[w] # 0)
       => /\ peerConnectionsRef'[v] = 0
          /\ pcs'[peerConnectionsRef[v]].signalingState = "closed"
          /\ viewerCount' = viewerCount - 1
          /\ peerConnectionsRef'[w] = peerConnectionsRef[w]
          /\ pcs'[peerConnectionsRef[w]] = pcs[peerConnectionsRef[w]]]_vars

\* C6: stopStreaming, in the one step it takes, closes every connection of
\* the map, empties the map, closes the socket and nulls socketRef, stops
\* the stream and nulls localStreamRef, and sets isStreaming false and
\* viewerCount 0 (the state of a component that is still mounted; the
\* cleanup on unmount runs it for the refs alone); no socket is created in
\* that step.
C6_StopTearsDown ==
  [][last'.op = "stopStreaming" =>
          /\ \A v \in Viewers :
                peerConnectionsRef[v] # 0 =>
                   pcs'[peerConnectionsRef[v]].signalingState = "closed"
          /\ \A v \in Viewers : peerConnectionsRef'[v] = 0
          /\ socketRef # 0 =>
                sockets'[socketRef].readyState \in {"CLOSING", "CLOSED"}
          /\ socketRef' = 0
          /\ localStreamRef # 0 => streams'[localStreamRef].stopped
          /\ localStreamRef' = 0
          /\ mounted' => ~isStreaming' /\ viewerCount' = 0
          /\ Len(sockets') = Len(sockets)]_vars

C6_Witness ==
  /\ last.op = "stopStreaming"
  /\ mounted
  /\ socketRef = 0 /\ localStreamRef = 0 /\ ~isStreaming /\ viewerCount = 0
  /\ Cardinality(ClosedSet(pcs)) = 2
  /\ \E s \in 1..Len(sockets) : sockets[s].readyState = "CLOSING"
  /\ \E i \in 1..Len(streams) : streams[i].stopped

\* what viewer_left(v) does to the map, the connections and the count (the
\* count of a mounted component: an unmounted one has none to change)
RemovesViewer(v) ==
  /\ IF peerConnectionsRef[v] # 0
     THEN /\ peerConnectionsRef' = [peerConnectionsRef EXCEPT ![v] = 0]
          /\ ClosedSet(pcs') = ClosedSet(pcs) \cup {peerConnectionsRef[v]}
          /\ viewerCount' = IF mounted THEN Max(0, viewerCount - 1)
                                       ELSE viewerCount
     ELSE /\ peerConnectionsRef' = peerConnectionsRef
          /\ ClosedSet(pcs') = ClosedSet(pcs)
          /\ viewerCount' = viewerCount
  /\ Len(pcs') = Len(pcs)

\* C7: a connection of viewer v reporting disconnected, failed or closed
\* does what viewer_left(v) does: the connection stored under v is closed
\* and removed and viewerCount is decremented, floored at zero; and only
\* viewer_joined ever creates a connection.
C7_TerminalStateIsLeave ==
  [][/\ \A p \in 1..Len(pcs) :
          (/\ last'.op = "connectionstatechange"
           /\ pcs'[p].connectionState # pcs[p].connectionState
           /\ ~IsClosed(p)
           /\ \/ pcs'[p].connectionState \in {"disconnected", "failed"}
              \/ IsClosed(p)')
          => RemovesViewer(pcs[p].viewerId)
     /\ last'.op = "viewer_left" => RemovesViewer(last'.viewerId)
     /\ Len(pcs') # Len(pcs) => last'.op = "viewer_joined"]_vars

C7_Witness ==
  /\ last.op = "connectionstatechange" /\ last.hit
  /\ mounted
  /\ peerConnectionsRef[last.viewerId] = 0
  /\ isStreaming /\ SocketIsOpen
  /\ \E p \in 1..Len(pcs) : pcs[p].viewerId = last.viewerId /\ IsClosed(p)

\* C8: a viewer_left envelope or a terminal connection state for a viewer id
\* that is not in the map changes neither the map nor viewerCount and closes
\* nothing.
C8_RemovalIsIdempotent ==
  [][(/\ last'.op \in {"viewer_left", "connectionstatechange"}
      /\ peerConnectionsRef[last'.viewerId] = 0)
     => /\ peerConnectionsRef' = peerConnectionsRef
        /\ viewerCount' = viewerCount
        /\ ClosedSet(pcs') = ClosedSet(pcs)]_vars

\* viewer_left for a viewer whose connection a terminal state removed before
C8_Witness ==
  /\ last.op = "viewer_left" /\ ~last.hit
  /\ leftCount = -1 /\ Len(sockets) = 1 /\ isStreaming
  /\ viewerCount = 1
  /\ \E p \in 1..Len(pcs) : pcs[p].viewerId = last.viewerId /\ IsClosed(p)

\* C9: viewerCount is never negative.
C9_CountNeverNegative == viewerCount >= 0

\* a removal that found the count at zero: the only connection was closed by
\* viewer_left while its viewer_joined handler was still suspended
C9_Witness ==
  /\ last.op = "viewer_left" /\ last.hit
  /\ Len(pcs) = 1 /\ IsClosed(1) /\ pcs[1].at = "createOffer"
  /\ viewerCount = 0

\* C10: an ice_candidate envelope is sent only by onicecandidate, only for a
\* non-null candidate while socketRef.current is an open socket, on that
\* socket and tagged with the viewer id of the connection; a candidate found
\* with the socket absent or not open is dropped, with no error and nothing
\* sent then or by a later task.
C10_CandidateOnlyWhileOpen ==
  [][/\ \A e \in BagToSet(sent') :
          e.type = "ice_candidate" =>
             /\ last'.op = "icecandidate"
             /\ SocketIsOpen
             /\ sent' = SetToBag({[type |-> "ice_candidate",
                                   viewerId |-> last'.viewerId,
                                   broadcasterId |-> BroadcasterId,
                                   payload |-> "candidate",
                                   sock |-> socketRef]})
     /\ last'.op = "icecandidate" =>
          /\ uncaught' = uncaught
          /\ SocketIsOpen => sent' # EmptyBag
          /\ ~SocketIsOpen => sent' = EmptyBag]_vars

\* a candidate dropped because the socket was no longer open
C10_Witness ==
  /\ last.op = "icecandidate" /\ ~last.hit
  /\ sent = EmptyBag
  /\ ~SocketIsOpen
  /\ \E p \in 1..Len(pcs) : ~IsClosed(p) /\ pcs[p].viewerId = last.viewerId

\* C11 as stated (component mounted): the close event of the session's
\* socket while a broadcast
\* is active is surfaced in status and ends the session: isStreaming becomes
\* false, socketRef no longer refers to a usable socket, every connection is
\* closed, and no socket is created.
C11_CloseEndsSession ==
  [][(/\ last'.op = "close"
      /\ mounted
      /\ isStreaming /\ socketRef # 0
      /\ \/ sockets[socketRef].readyState # "CLOSED"
         \/ sockets[socketRef].closeDue
      /\ sockets'[socketRef].readyState = "CLOSED"
      /\ ~sockets'[socketRef].closeDue)
     => /\ status' \in {"Signaling connection closed", "Stream ended"}
        /\ ~isStreaming'
        /\ socketRef' = 0 \/ sockets'[socketRef'].readyState = "CLOSED"
        /\ ClosedSet(pcs') = 1..Len(pcs')
        /\ Len(sockets') = Len(sockets)]_vars

\* the viewer the task names has a usable connection in the map
Targets(v) == Usable(peerConnectionsRef[v])

\* the step is a negotiation failure for the viewer it names: createOffer,
\* setLocalDescription or setRemoteDescription rejected, a
\* setRemoteDescription call was made that will reject (no local offer set
\* or being set), or addIceCandidate rejected (no remote description)
NegotiationFailed ==
  \/ /\ last'.op \in {"createOffer", "setLocalDescription",
                       "setRemoteDescription"}
     /\ ~last'.hit
  \/ /\ last'.op = "answer" /\ Targets(last'.viewerId)
     /\ ~OfferUnderWay(peerConnectionsRef[last'.viewerId])
  \/ /\ last'.op = "ice_candidate" /\ Targets(last'.viewerId)
     /\ ~pcs[peerConnectionsRef[last'.viewerId]].remoteSet

\* C13: a negotiation failure for viewer v leaves the map and every
\* connection of another viewer unchanged, the sockets and socketRef as they
\* were, isStreaming as it was, and no error leaves the handler (the onmessage
\* handler keeps processing envelopes).
C13_FailureIsContained ==
  [][NegotiationFailed =>
        /\ peerConnectionsRef' = peerConnectionsRef
        /\ Len(pcs') = Len(pcs)
        /\ \A p \in 1..Len(pcs) :
              pcs[p].viewerId # last'.viewerId => pcs'[p] = pcs[p]
        /\ sockets' = sockets /\ socketRef' = socketRef
        /\ isStreaming' = isStreaming
        /\ uncaught' = uncaught]_vars

\* an offer went out to one viewer after the negotiation for the other viewer
\* had failed, with the session still live
C13_Witness ==
  /\ last.op = "setLocalDescription" /\ last.hit
  /\ sent = OfferFor(last.viewerId)
  /\ isStreaming /\ SocketIsOpen /\ ~uncaught
  /\ \E p \in 1..Len(pcs) :
        /\ pcs[p].viewerId # last.viewerId
        /\ peerConnectionsRef[pcs[p].viewerId] = p
        /\ pcs[p].at = "done" /\ pcs[p].signalingState = "stable"
        /\ ~pcs[p].remoteSet

\* C14 as stated (component mounted): the task that receives viewer_joined
\* increases viewerCount
\* by one, before any other envelope or event is processed.
C14_CountIncreasesOnJoin ==
  [][(mounted /\ last'.op = "viewer_joined")
        => viewerCount' = viewerCount + 1]_vars

\* C20 as stated (component mounted): with the session torn down and none
\* started since, a
\* viewer_joined handler that resumes sends nothing and leaves viewerCount 0
\* and the map empty.
C20_NoChangeAfterTeardown ==
  [][(/\ last'.op \in {"createOffer", "setLocalDescription"}
      /\ mounted
      /\ ~isStreaming /\ socketRef = 0 /\ pendingStarts = 0
      /\ viewerCount = 0)
     => /\ sent' = EmptyBag
        /\ viewerCount' = 0
        /\ peerConnectionsRef' = [v \in Viewers |-> 0]]_vars

\* C12: in either broadcaster, when getUserMedia rejects in startStreaming,
\* that call creates no WebSocket, socketRef, the stream and the timers are
\* untouched, isStreaming stays as it was, nothing is sent, and the status
\* of the mounted component becomes the error message.
C12_MediaFailureDoesNotStart ==
  [][(last'.op = "getUserMedia" /\ ~last'.hit) =>
        /\ sent' = EmptyBag
        /\ component = "webrtc" =>
              /\ sockets' = sockets /\ socketRef' = socketRef
              /\ isStreaming' = isStreaming
              /\ mounted => status' = "Error: getUserMedia"
              /\ localStreamRef' = localStreamRef
        /\ component = "snapshot" =>
              /\ snapshot'.sockets = snapshot.sockets
              /\ snapshot'.socketRef = snapshot.socketRef
              /\ snapshot'.isStreaming = snapshot.isStreaming
              /\ mounted => snapshot'.status = "Error: getUserMedia"
              /\ snapshot'.streamRef = snapshot.streamRef
              /\ snapshot'.timers = snapshot.timers]_vars

\* the snapshot broadcaster refused the camera on its second start, after a
\* first session had run and ended
C12_Witness ==
  /\ component = "snapshot"
  /\ mounted
  /\ last.op = "getUserMedia" /\ ~last.hit
  /\ snapshot.status = "Error: getUserMedia"
  /\ ~snapshot.isStreaming
  /\ Len(snapshot.sockets) = 1 /\ Len(snapshot.timers) = 1
  /\ snapshot.pendingStarts = <<>>

\* ---------------------------------------------------- viewer properties
PendingTimers == {t \in 1..Len(viewer.timers) : viewer.timers[t].state = "pending"}

\* sockets the viewer created and that are neither closing nor closed
ActiveSockets ==
  {s \in 1..Len(viewer.sockets) :
      viewer.sockets[s].readyState \in {"CONNECTING", "OPEN"}}

\* nothing the viewer has set in motion is still to come: no timer is
\* pending and every socket but the current one has closed
ViewerSettled ==
  /\ PendingTimers = {}
  /\ \A s \in 1..Len(viewer.sockets) :
        s # viewer.socketRef => viewer.sockets[s].readyState = "CLOSED"

\* C15 as stated: once everything a Reconnect click set in motion has
\* happened, the mounted viewer holds a socket created after the click, with
\* the open, message and close handlers installed.
C15_ReconnectRecreatesChannel ==
  (/\ viewer.isMounted
   /\ ViewerSettled
   /\ \E t \in 1..Len(viewer.timers) :
         viewer.timers[t].kind = "recreate" /\ viewer.timers[t].state = "fired")
  => /\ viewer.socketRef # 0
     /\ viewer.sockets[viewer.socketRef].handlers

\* C16 as stated: every socket the viewer created that is neither closing
\* nor closed is the one socketRef refers to (so there is at most one).
C16_AtMostOneActive ==
  \A s \in ActiveSockets : s = viewer.socketRef

\* C17 as stated: while the viewer is in the disconnected status its close
\* handler set, no task other than the Reconnect button's (the click and
\* the timer it sets) creates a socket or returns the status to Connecting.
C17_NoAttemptWithoutReconnect ==
  [][(/\ viewer.status = "Disconnected"
      /\ ~viewer.isConnected
      /\ last'.op \notin {"reconnect_click", "recreate_timer"})
     => /\ Len(viewer'.sockets) = Len(viewer.sockets)
        /\ viewer'.status # "Connecting to stream..."]_vars

\* C18 as stated: every socket of the viewer that is open, once no
\* announcement timer is pending, has had viewer_joined sent on it; a
\* viewer_joined envelope carries the viewer's id and goes out on an open
\* socket only.
C18_AnnouncesOnEveryOpen ==
  /\ \A e \in BagToSet(sent) :
        e.type = "viewer_joined" =>
           /\ e.viewer_id = ViewerId
           /\ viewer.sockets[e.sock].readyState = "OPEN"
  /\ (\A t \in PendingTimers : viewer.timers[t].kind # "announce")
       => \A s \in 1..Len(viewer.sockets) :
             (viewer.sockets[s].readyState = "OPEN" /\ viewer.isMounted)
                => viewer.sockets[s].announced

\* C19 as stated: the close event of the viewer's connection sets status to
\* Disconnected and isConnected to false and clears the displayed frame.
C19_CloseClearsMedia ==
  [][(/\ last'.op = "close"
      /\ viewer.isMounted
      /\ viewer.socketRef # 0
      /\ viewer.sockets[viewer.socketRef].readyState # "CLOSED"
      /\ viewer'.sockets[viewer.socketRef].readyState = "CLOSED")
     => /\ viewer'.status = "Disconnected"
        /\ ~viewer'.isConnected
        /\ viewer'.image = NoFrame]_vars

\* C21 as stated, for a live session of the mounted component: whenever no
\* viewer_joined handler is
\* suspended at an await, viewerCount is the number of entries of the
\* connection map.
C21_CountIsMapSize ==
  (mounted /\ Quiescent /\ isStreaming /\ SocketIsOpen) =>
    viewerCount = Cardinality({v \in Viewers : peerConnectionsRef[v] # 0})

\* C22 as stated (component mounted): the close event of a superseded
\* socket of the snapshot
\* broadcaster leaves the current session alone: while the session streams
\* on its open socket with its frame timer running, isStreaming stays true
\* and the frame timer stays the same and active.
C22_LateCloseLeavesSession ==
  [][(/\ last'.op = "close"
      /\ ~last'.hit
      /\ mounted
      /\ snapshot.isStreaming
      /\ CanSendFrame(snapshot)
      /\ snapshot.frameIntervalRef # 0)
     => /\ snapshot'.isStreaming
        /\ snapshot'.frameIntervalRef = snapshot.frameIntervalRef
        /\ snapshot'.timers[snapshot.frameIntervalRef].active]_vars

\* C23 as stated: in the snapshot broadcaster the viewerCount of the mounted
\* component is the size of the viewers set after every task; joined adds
\* the id and left removes it, so
\* a joined for an id already present and a left for an id not present
\* leave the count unchanged; stopStreaming empties the set and zeroes the
\* count.
C23_CountIsSetSize ==
  [][/\ mounted' => snapshot'.viewerCount = Cardinality(snapshot'.viewers)
     /\ last'.op = "joined"
          => snapshot'.viewers = snapshot.viewers \cup {last'.viewerId}
     /\ last'.op = "left"
          => snapshot'.viewers = snapshot.viewers \ {last'.viewerId}
     /\ (\/ last'.op = "joined" /\ last'.hit
         \/ last'.op = "left" /\ ~last'.hit)
          => snapshot'.viewerCount = snapshot.viewerCount
     /\ last'.op = "stopStreaming"
          => /\ snapshot'.viewers = {}
             /\ mounted' => snapshot'.viewerCount = 0]_vars

\* a joined for an id already in the set was processed and the count is
\* still one
C23_Witness ==
  /\ mounted
  /\ last.op = "joined"
  /\ last.hit
  /\ snapshot.viewers = {last.viewerId}
  /\ snapshot.viewerCount = 1

\* the interval timers of the snapshot broadcaster that are running in b
ActiveTimers(b) == {t \in 1..Len(b.timers) : b.timers[t].active}

\* C24 as stated: after handleFpsChange(n) while streaming, exactly one frame
\* timer is active, it is the one frameIntervalRef holds, and its period is
\* 1000 / n for the newly selected n.
C24_FpsChangeTakesEffect ==
  [][(last'.op = "fps" /\ last'.hit)
     => /\ ActiveTimers(snapshot') = {snapshot'.frameIntervalRef}
        /\ snapshot'.timers[snapshot'.frameIntervalRef].period
             = 1000 \div snapshot'.fps]_vars

\* C25 as stated: once the viewer is unmounted, no task creates a WebSocket,
\* sends an envelope, or changes status, isConnected, frameCount, the
\* displayed image, the viewers count, socketRef or the reconnect record,
\* and the viewer stays unmounted, whatever socket or timer events are
\* delivered.
C25_NothingAfterUnmount ==
  [][~viewer.isMounted
     => /\ ~viewer'.isMounted
        /\ Len(viewer'.sockets) = Len(viewer.sockets)
        /\ Len(viewer'.timers) = Len(viewer.timers)
        /\ sent' = EmptyBag
        /\ viewer'.status = viewer.status
        /\ viewer'.isConnected = viewer.isConnected
        /\ viewer'.frameCount = viewer.frameCount
        /\ viewer'.lastFrameTime = viewer.lastFrameTime
        /\ viewer'.image = viewer.image
        /\ viewer'.viewersCount = viewer.viewersCount
        /\ viewer'.socketRef = viewer.socketRef
        /\ viewer'.reconnectTimerRef = viewer.reconnectTimerRef]_vars

\* a timer that was pending at unmount (an automatic reconnect or the
\* Reconnect button's) has fired on the unmounted viewer
C25_Witness ==
  /\ ~viewer.isMounted
  /\ last.op \in {"reconnect_timer", "recreate_timer"}
  /\ ~last.hit

\* C26 as stated: the close event handled when k close events have been
\* handled since the attempt counter was last reset sets exactly one
\* automatic reconnect timer, of delay min(3000 * k + 1000, 10000) ms; the
\* delay is at least 1000, at most 10000 and not shorter than the delay of
\* the close event before it, and the counter becomes k + 1.
C26_ReconnectDelay ==
  [][(last'.op = "close" /\ last'.hit)
     => LET k == viewer.reconnectTimerRef.attempts
            n == Len(viewer.timers) + 1
            d == viewer'.timers[n].delay
        IN /\ Len(viewer'.timers) = n
           /\ \A t \in 1..Len(viewer.timers) :
                 viewer'.timers[t] = viewer.timers[t]
           /\ viewer'.timers[n].kind = "reconnect"
           /\ viewer'.timers[n].state = "pending"
           /\ d = (IF 3000 * k + 1000 <= 10000 THEN 3000 * k + 1000
                                               ELSE 10000)
           /\ d >= 1000
           /\ d <= 10000
           /\ ~viewer.reconnectTimerRef.isNull
                 => viewer.timers[viewer.reconnectTimerRef.timer].delay <= d
           /\ viewer'.reconnectTimerRef =
                 [isNull |-> FALSE, timer |-> n, attempts |-> k + 1]]_vars

\* a close event was handled after so many attempts that 3000 * k + 1000
\* exceeds 10000, and the timer it set has the delay 10000
C26_Witness ==
  /\ last.op = "close"
  /\ last.hit
  /\ ~viewer.reconnectTimerRef.isNull
  /\ 3000 * (viewer.reconnectTimerRef.attempts - 1) + 1000 > 10000
  /\ viewer.timers[viewer.reconnectTimerRef.timer].delay = 10000
  /\ viewer.timers[viewer.reconnectTimerRef.timer].state = "pending"

\* the frame begins with 'data:image' or with 'blob:'
HasImagePrefix(frame) ==
  \/ StartsWith(frame, <<"d", "a", "t", "a", ":", "i", "m", "a", "g", "e">>)
  \/ StartsWith(frame, <<"b", "l", "o", "b", ":">>)

\* the image, the frame counter, the status and the connection of the
\* viewer are the same after the step
ViewerDisplayUnchanged ==
  /\ viewer'.image = viewer.image
  /\ viewer'.frameCount = viewer.frameCount
  /\ viewer'.lastFrameTime = viewer.lastFrameTime
  /\ viewer'.status = viewer.status
  /\ viewer'.isConnected = viewer.isConnected
  /\ viewer'.socketRef = viewer.socketRef
  /\ viewer'.sockets = viewer.sockets
  /\ viewer'.reconnectTimerRef = viewer.reconnectTimerRef

\* C27 as stated: when onmessage processes a video_frame whose frame starts
\* with 'data:image' or 'blob:', frameCount increases by exactly one and the
\* displayed image becomes that frame; a video_frame whose frame is missing
\* or has another format, and a message that is not JSON or of an unknown
\* type, leave the image, frameCount, the status and the connection
\* unchanged; and the image or the count change to nothing but such a frame.
C27_OnlyValidFramesDisplayed ==
  [][/\ \A s \in 1..Len(viewer.sockets) :
          /\ \A frame \in {DataImageFrame, BlobFrame} :
                (ViewerOnVideoFrame(s, frame) /\ Handles(s))
                   => /\ viewer'.image = frame
                      /\ viewer'.frameCount = viewer.frameCount + 1
          /\ \A frame \in {OtherFrame, NoFrame} :
                ViewerOnVideoFrame(s, frame) => ViewerDisplayUnchanged
          /\ ViewerOnOtherMessage(s) => ViewerDisplayUnchanged
     /\ (viewer'.image # viewer.image
           \/ viewer'.frameCount > viewer.frameCount)
          => /\ last'.op = "video_frame"
             /\ HasImagePrefix(viewer'.image)
             /\ viewer'.frameCount = viewer.frameCount + 1]_vars

\* a blob: frame was displayed and counted, and then a frame of another
\* format arrived and was ignored
C27_Witness ==
  /\ last.op = "video_frame"
  /\ ~last.hit
  /\ viewer.isMounted
  /\ viewer.image = BlobFrame
  /\ viewer.frameCount = 1
  /\ viewer.status = "Receiving video stream"

====
